---- MODULE Spec2Model ----
(***************************************************************************)
(* A model of scripts/generate_efficient_frontier.py: the batch pipeline   *)
(* main() and the functions it calls (compute_returns, the pandas moments, *)
(* generate_weight_grid, portfolio_stats, build_frontier, the JSON         *)
(* document).                                                              *)
(*                                                                         *)
(* Numbers.  The program computes in float64.  The model has two kinds of  *)
(* number.                                                                 *)
(*                                                                         *)
(* A float64, with its rounding, is a record [k, s, m, e]: k = "nan",      *)
(* "ninf", "pinf" or "fin", and a "fin" is s * m * 2^e with s the sign,    *)
(* m a natural number of Precision bits (or 0) and every operation rounded *)
(* to the nearest such value, ties to even.  These are the numbers the     *)
(* program holds: the weights, the moments, the portfolio returns and      *)
(* volatilities, the document.                                             *)
(*                                                                         *)
(* An exact value is a record [k, n, d]: k = "nan", "ninf", "pinf" or      *)
(* "num", and a "num" is the rational n/d (d > 0, lowest terms).  These    *)
(* are the numbers inside the pandas statistics (pct_change, mean, cov,    *)
(* std): the value the formula has before rounding, with the IEEE rules    *)
(* for NaN and the infinities, rounded to a float64 once when the          *)
(* statistic is returned.  On a return table of up to two rows of the      *)
(* price values of the model no step of the formula rounds, and the        *)
(* statistic is the float pandas returns.  Zero has no sign in either      *)
(* kind.                                                                   *)
(***************************************************************************)
EXTENDS Integers, Sequences, FiniteSets, TLC

VARIABLES pc, file, closes, returns, mean_returns, cov_matrix,
          num_steps, gi, gj, weights, port_returns, port_vols,
          order, pos, best, frontier,
          mean_daily, annual_returns, annual_volatility, written, stages

vars == <<pc, file, closes, returns, mean_returns, cov_matrix,
          num_steps, gi, gj, weights, port_returns, port_vols,
          order, pos, best, frontier,
          mean_daily, annual_returns, annual_volatility, written, stages>>

-----------------------------------------------------------------------------
(* Bounds of the model *)

\* build_frontier alone: the longest input
MaxPoints == 3
\* generate_weight_grid alone: the largest num_steps
MaxSteps == 8
\* main: the most rows of the price table
MaxRows == 3

-----------------------------------------------------------------------------
(* Exact values *)

NaN == [k |-> "nan", n |-> 0, d |-> 1]

NegInf == [k |-> "ninf", n |-> 0, d |-> 1]

PosInf == [k |-> "pinf", n |-> 0, d |-> 1]

Abs(x) == IF x < 0 THEN -x ELSE x

RECURSIVE Gcd(_, _)
Gcd(a, b) == IF b = 0 THEN a ELSE Gcd(b, a % b)

\* n/d, d # 0
Rat(n, d) ==
    LET g == Gcd(Abs(n), Abs(d))
        s == IF d < 0 THEN -1 ELSE 1
    IN  [k |-> "num", n |-> (s * n) \div g, d |-> (s * d) \div g]

Num(i) == Rat(i, 1)

IsNaN(x) == x.k = "nan"

IsInf(x) == x.k \in {"ninf", "pinf"}

\* -1, 0 or 1
Sign(x) ==
    IF x.k = "ninf" THEN -1
    ELSE IF x.k = "pinf" THEN 1
    ELSE IF x.n < 0 THEN -1
    ELSE IF x.n > 0 THEN 1
    ELSE 0

\* the infinity of the sign s (of +inf when s = 0, the sign of +0.0)
Inf(s) == IF s < 0 THEN NegInf ELSE PosInf

\* x + y
Add(x, y) ==
    IF IsNaN(x) \/ IsNaN(y) THEN NaN
    ELSE IF IsInf(x) /\ IsInf(y) THEN (IF x = y THEN x ELSE NaN)
    ELSE IF IsInf(x) THEN x
    ELSE IF IsInf(y) THEN y
    ELSE Rat(x.n * y.d + y.n * x.d, x.d * y.d)

Neg(x) ==
    IF x.k = "num" THEN [x EXCEPT !.n = -x.n]
    ELSE IF IsInf(x) THEN Inf(-Sign(x))
    ELSE x

Sub(x, y) == Add(x, Neg(y))

\* x * y
Mul(x, y) ==
    IF IsNaN(x) \/ IsNaN(y) THEN NaN
    ELSE IF IsInf(x) \/ IsInf(y)
         THEN (IF Sign(x) * Sign(y) = 0 THEN NaN ELSE Inf(Sign(x) * Sign(y)))
    ELSE Rat(x.n * y.n, x.d * y.d)

\* x / y: 0/0 and inf/inf are NaN, x/0 is the infinity of the sign of x
Div(x, y) ==
    IF IsNaN(x) \/ IsNaN(y) THEN NaN
    ELSE IF IsInf(x) /\ IsInf(y) THEN NaN
    ELSE IF IsInf(x) THEN Inf(Sign(x) * (IF Sign(y) < 0 THEN -1 ELSE 1))
    ELSE IF IsInf(y) THEN Num(0)
    ELSE IF y.n = 0 THEN (IF x.n = 0 THEN NaN ELSE Inf(Sign(x)))
    ELSE Rat(x.n * y.d, x.d * y.n)

\* element idx (0-based, as in the program) of a sequence
At(s, idx) == s[idx + 1]

RECURSIVE SumSeq(_)
SumSeq(s) == IF s = <<>> THEN Num(0) ELSE Add(Head(s), SumSeq(Tail(s)))

-----------------------------------------------------------------------------
(* Natural numbers of any size: little-endian sequences of limbs below LimbBase,
   without leading zero limbs *)
LimbBits == 15

LimbBase == 2 ^ LimbBits

RECURSIVE BNorm(_)
BNorm(a) == IF a # <<>> /\ a[Len(a)] = 0 THEN BNorm(SubSeq(a, 1, Len(a) - 1)) ELSE a

RECURSIVE BFromInt(_)
BFromInt(i) == IF i = 0 THEN <<>> ELSE <<i % LimbBase>> \o BFromInt(i \div LimbBase)

Limb(a, i) == IF i <= Len(a) THEN a[i] ELSE 0

RECURSIVE BCmpAt(_, _, _)
BCmpAt(a, b, i) ==
    IF i = 0 THEN 0
    ELSE IF a[i] # b[i] THEN (IF a[i] < b[i] THEN -1 ELSE 1)
    ELSE BCmpAt(a, b, i - 1)

BCmp(a, b) ==
    IF Len(a) # Len(b) THEN (IF Len(a) < Len(b) THEN -1 ELSE 1)
    ELSE BCmpAt(a, b, Len(a))

RECURSIVE BAddFrom(_, _, _, _)
BAddFrom(a, b, i, c) ==
    IF i > Len(a) /\ i > Len(b) THEN (IF c = 0 THEN <<>> ELSE <<c>>)
    ELSE LET t == Limb(a, i) + Limb(b, i) + c
         IN  <<t % LimbBase>> \o BAddFrom(a, b, i + 1, t \div LimbBase)

BAdd(a, b) == BAddFrom(a, b, 1, 0)

RECURSIVE BSubFrom(_, _, _, _)
BSubFrom(a, b, i, c) ==
    IF i > Len(a) THEN <<>>
    ELSE LET t == a[i] - Limb(b, i) - c
         IN  IF t < 0 THEN <<t + LimbBase>> \o BSubFrom(a, b, i + 1, 1)
             ELSE <<t>> \o BSubFrom(a, b, i + 1, 0)

\* a - b for a >= b
BSub(a, b) == BNorm(BSubFrom(a, b, 1, 0))

RECURSIVE BMulFrom(_, _, _, _)
BMulFrom(a, k, i, c) ==
    IF i > Len(a) THEN (IF c = 0 THEN <<>> ELSE <<c>>)
    ELSE LET t == a[i] * k + c
         IN  <<t % LimbBase>> \o BMulFrom(a, k, i + 1, t \div LimbBase)

\* a * k for 0 <= k <= LimbBase
BMulSmall(a, k) == IF k = 0 THEN <<>> ELSE BMulFrom(a, k, 1, 0)

\* a * 2^n
BShl(a, n) ==
    IF a = <<>> \/ n = 0 THEN a
    ELSE [i \in 1..(n \div LimbBits) |-> 0] \o BMulSmall(a, 2 ^ (n % LimbBits))

RECURSIVE BDivFrom(_, _, _, _)
BDivFrom(a, k, i, r) ==
    IF i = 0 THEN <<>>
    ELSE LET t == r * LimbBase + a[i]
         IN  BDivFrom(a, k, i - 1, t % k) \o <<t \div k>>

\* a \div k for 1 <= k <= LimbBase
BDivSmall(a, k) == BNorm(BDivFrom(a, k, Len(a), 0))

RECURSIVE BModFrom(_, _, _, _)
BModFrom(a, k, i, r) ==
    IF i = 0 THEN r ELSE BModFrom(a, k, i - 1, (r * LimbBase + a[i]) % k)

\* a \div 2^n
BShr(a, n) ==
    IF n = 0 THEN a
    ELSE IF n \div LimbBits >= Len(a) THEN <<>>
    ELSE BDivSmall(SubSeq(a, n \div LimbBits + 1, Len(a)), 2 ^ (n % LimbBits))

\* bit i of a, bit 0 the lowest
BBit(a, i) == (Limb(a, i \div LimbBits + 1) \div (2 ^ (i % LimbBits))) % 2

\* a % 2^n = 0
BLowZero(a, n) ==
    /\ \A i \in 1..(n \div LimbBits) : Limb(a, i) = 0
    /\ Limb(a, n \div LimbBits + 1) % (2 ^ (n % LimbBits)) = 0

RECURSIVE IntBitLen(_)
IntBitLen(x) == IF x = 0 THEN 0 ELSE 1 + IntBitLen(x \div 2)

BBitLen(a) == IF a = <<>> THEN 0 ELSE LimbBits * (Len(a) - 1) + IntBitLen(a[Len(a)])

\* the largest d >= acc with d < acc + 2^(bit+1) and b * d <= r
RECURSIVE BDigit(_, _, _, _)
BDigit(r, b, bit, acc) ==
    IF bit < 0 THEN acc
    ELSE IF BCmp(BMulSmall(b, acc + 2 ^ bit), r) <= 0
         THEN BDigit(r, b, bit - 1, acc + 2 ^ bit)
         ELSE BDigit(r, b, bit - 1, acc)

\* quotient and remainder of the limbs i.. of a by b, by long division: p is
\* the result of the limbs above i, and the quotient keeps its leading zeros
RECURSIVE BDivModFrom(_, _, _)
BDivModFrom(a, b, i) ==
    IF i > Len(a) THEN <<<<>>, <<>>>>
    ELSE LET p == BDivModFrom(a, b, i + 1)
             r2 == BNorm(<<a[i]>> \o p[2])
             d == BDigit(r2, b, LimbBits - 1, 0)
         IN  IF p[2] = <<>> /\ a[i] = 0 THEN <<<<0>> \o p[1], <<>>>>
             ELSE <<<<d>> \o p[1], BSub(r2, BMulSmall(b, d))>>

\* <<a \div b, a % b>> for b > 0: short division by a divisor of one limb,
\* long division by any other
BDivMod(a, b) ==
    IF a = <<>> THEN <<<<>>, <<>>>>
    ELSE IF Len(b) = 1 THEN <<BDivSmall(a, b[1]), BFromInt(BModFrom(a, b[1], Len(a), 0))>>
    ELSE LET p == BDivModFrom(a, b, 1) IN <<BNorm(p[1]), p[2]>>

\* a * LimbBase
BShiftLimb(a) == IF a = <<>> THEN <<>> ELSE <<0>> \o a

\* a * (the limbs i.. of b)
RECURSIVE BMulAt(_, _, _)
BMulAt(a, b, i) ==
    IF i > Len(b) THEN <<>>
    ELSE BAdd(BMulSmall(a, b[i]), BShiftLimb(BMulAt(a, b, i + 1)))

\* a * b
BMul(a, b) == IF Len(a) < Len(b) THEN BMulAt(b, a, 1) ELSE BMulAt(a, b, 1)

\* the largest d >= acc with d < acc + 2^(bit+1) and (t + d) * d <= r
RECURSIVE BSqrtDigit(_, _, _, _)
BSqrtDigit(t, r, bit, acc) ==
    IF bit < 0 THEN acc
    ELSE IF BCmp(BMulSmall(BAdd(t, <<acc + 2 ^ bit>>), acc + 2 ^ bit), r) <= 0
         THEN BSqrtDigit(t, r, bit - 1, acc + 2 ^ bit)
         ELSE BSqrtDigit(t, r, bit - 1, acc)

\* <<root, remainder>> of the limbs i.. of a, an even number of them, by the
\* digit-by-digit method: p is the result of the limbs above, and the next
\* digit d of the root is the largest with (2 * root * LimbBase + d) * d no
\* more than the remainder
RECURSIVE BSqrtFrom(_, _)
BSqrtFrom(a, i) ==
    IF i > Len(a) THEN <<<<>>, <<>>>>
    ELSE LET p == BSqrtFrom(a, i + 2)
             r == BNorm(<<a[i], a[i + 1]>> \o p[2])
             t == BShiftLimb(BMulSmall(p[1], 2))
             d == BSqrtDigit(t, r, LimbBits - 1, 0)
         IN  IF p[1] = <<>> /\ d = 0 THEN <<<<>>, r>>
             ELSE <<BNorm(<<d>> \o p[1]), BSub(r, BMulSmall(BAdd(t, <<d>>), d))>>

\* <<floor of the square root of a, a - root^2>>
BSqrtRem(a) == BSqrtFrom(IF Len(a) % 2 = 1 THEN a \o <<0>> ELSE a, 1)

-----------------------------------------------------------------------------
(* IEEE 754 binary64, round to nearest even: a finite value is s * m * 2^e
   with m = 0 or 2^52 <= m < 2^53 *)
Precision == 53

DNaN == [k |-> "nan", s |-> 1, m |-> <<>>, e |-> 0]

DInf(s) == [k |-> IF s < 0 THEN "ninf" ELSE "pinf", s |-> s, m |-> <<>>, e |-> 0]

DZero == [k |-> "fin", s |-> 1, m |-> <<>>, e |-> 0]

DIsNaN(x) == x.k = "nan"

DIsZero(x) == x.k = "fin" /\ x.m = <<>>

\* the double nearest s * (N + f) * 2^e, where 0 <= f < 1 and sticky says f > 0
Round(s, N, e, sticky) ==
    LET L == BBitLen(N)
        sh == L - Precision
        q == BShr(N, sh)
        up == /\ BBit(N, sh - 1) = 1
              /\ (sticky \/ ~BLowZero(N, sh - 1) \/ BBit(q, 0) = 1)
        q2 == IF up THEN BAdd(q, <<1>>) ELSE q
    IN  IF L = 0 THEN DZero
        ELSE IF L <= Precision
             THEN [k |-> "fin", s |-> s, m |-> BShl(N, Precision - L),
                   e |-> e - (Precision - L)]
        ELSE IF BBitLen(q2) > Precision
             THEN [k |-> "fin", s |-> s, m |-> BShr(q2, 1), e |-> e + sh + 1]
        ELSE [k |-> "fin", s |-> s, m |-> q2, e |-> e + sh]

DFromInt(i) == Round(IF i < 0 THEN -1 ELSE 1, BFromInt(IF i < 0 THEN -i ELSE i), 0, FALSE)

DNeg(x) ==
    IF x.k = "nan" \/ DIsZero(x) THEN x
    ELSE IF x.k = "fin" THEN [x EXCEPT !.s = -x.s]
    ELSE DInf(-x.s)

DAddFinite(x, y) ==
    LET lo == IF x.e < y.e THEN x.e ELSE y.e
        a == BShl(x.m, x.e - lo)
        b == BShl(y.m, y.e - lo)
        c == BCmp(a, b)
    IN  IF x.s = y.s THEN Round(x.s, BAdd(a, b), lo, FALSE)
        ELSE IF c = 0 THEN DZero
        ELSE IF c > 0 THEN Round(x.s, BSub(a, b), lo, FALSE)
        ELSE Round(y.s, BSub(b, a), lo, FALSE)

DAdd(x, y) ==
    IF DIsNaN(x) \/ DIsNaN(y) THEN DNaN
    ELSE IF x.k # "fin" /\ y.k # "fin" THEN (IF x.k = y.k THEN x ELSE DNaN)
    ELSE IF x.k # "fin" THEN x
    ELSE IF y.k # "fin" THEN y
    ELSE IF DIsZero(x) THEN y
    ELSE IF DIsZero(y) THEN x
    ELSE DAddFinite(x, y)

DSub(x, y) == DAdd(x, DNeg(y))

\* x < y
DLess(x, y) ==
    IF DIsNaN(x) \/ DIsNaN(y) THEN FALSE
    ELSE IF x.k = "pinf" \/ y.k = "ninf" THEN FALSE
    ELSE IF x.k = "ninf" \/ y.k = "pinf" THEN TRUE
    ELSE IF DIsZero(x) THEN ~DIsZero(y) /\ y.s > 0
    ELSE IF DIsZero(y) THEN x.s < 0
    ELSE IF x.s # y.s THEN x.s < y.s
    ELSE IF x.e # y.e THEN (x.s > 0) = (x.e < y.e)
    ELSE BCmp(x.m, y.m) = (IF x.s > 0 THEN -1 ELSE 1)

DGeq(x, y) == ~DIsNaN(x) /\ ~DIsNaN(y) /\ ~DLess(x, y)

DEq(x, y) == ~DIsNaN(x) /\ ~DIsNaN(y) /\ x = y

\* i * x for an integer 0 <= i <= LimbBase and a finite x
DMulInt(i, x) ==
    IF x.k # "fin" THEN x ELSE Round(x.s, BMulSmall(x.m, i), x.e, FALSE)

\* the double nearest s * a / b for naturals a and b > 0
DRatio(s, a, b) ==
    LET g == IF BBitLen(b) + Precision + 3 > BBitLen(a)
             THEN BBitLen(b) + Precision + 3 - BBitLen(a) ELSE 0
        qr == BDivMod(BShl(a, g), b)
    IN  Round(s, qr[1], -g, qr[2] # <<>>)

\* the number of zero limbs at the low end of a > 0
ZeroLimbs(a) == Cardinality({i \in 1..Len(a) : \A j \in 1..i : a[j] = 0})

\* x / y.  Dividing by a power of two changes the exponent only; the zero
\* limbs at the low end of any other divisor are taken out before the division
DDiv(x, y) ==
    IF DIsNaN(x) \/ DIsNaN(y) THEN DNaN
    ELSE IF x.k # "fin" /\ y.k # "fin" THEN DNaN
    ELSE IF x.k # "fin" THEN DInf(x.s * y.s)
    ELSE IF y.k # "fin" THEN DZero
    ELSE IF DIsZero(y) THEN (IF DIsZero(x) THEN DNaN ELSE DInf(x.s))
    ELSE IF DIsZero(x) THEN DZero
    ELSE IF BLowZero(y.m, Precision - 1)
         THEN [x EXCEPT !.s = x.s * y.s, !.e = x.e - y.e - (Precision - 1)]
    ELSE LET z == ZeroLimbs(y.m)
             q == DRatio(x.s * y.s, x.m, SubSeq(y.m, z + 1, Len(y.m)))
         IN  [q EXCEPT !.e = q.e + x.e - y.e - LimbBits * z]

\* x * y; the zero limbs at the low end of a mantissa go to the exponent
DMul(x, y) ==
    IF DIsNaN(x) \/ DIsNaN(y) THEN DNaN
    ELSE IF x.k # "fin" \/ y.k # "fin"
         THEN (IF DIsZero(x) \/ DIsZero(y) THEN DNaN ELSE DInf(x.s * y.s))
    ELSE IF DIsZero(x) \/ DIsZero(y) THEN DZero
    ELSE LET zx == ZeroLimbs(x.m)
             zy == ZeroLimbs(y.m)
         IN  Round(x.s * y.s,
                   BMul(SubSeq(x.m, zx + 1, Len(x.m)), SubSeq(y.m, zy + 1, Len(y.m))),
                   x.e + y.e + LimbBits * (zx + zy), FALSE)

\* np.sqrt: NaN for NaN and for a negative operand; the root of
\* m * 2^e is the root of the integer m * 2^k for a k that leaves e - k even
\* and the root Precision + 1 bits long, times 2^((e - k) / 2)
DSqrt(x) ==
    IF DIsNaN(x) \/ x.k = "ninf" THEN DNaN
    ELSE IF x.k = "pinf" \/ DIsZero(x) THEN x
    ELSE IF x.s < 0 THEN DNaN
    ELSE LET k == Precision + 1 + ((x.e + Precision + 1) % 2)
             sr == BSqrtRem(BShl(x.m, k))
         IN  Round(1, sr[1], (x.e - k) \div 2, sr[2] # <<>>)

\* 10^k
RECURSIVE BPow10(_)
BPow10(k) == IF k = 0 THEN <<1>> ELSE BMulSmall(BPow10(k - 1), 10)

DOne == DFromInt(1)

\* the float64 nearest an exact value
Float64(x) ==
    CASE x.k = "nan" -> DNaN
      [] x.k = "ninf" -> DInf(-1)
      [] x.k = "pinf" -> DInf(1)
      [] x.k = "num" ->
            DRatio(IF x.n < 0 THEN -1 ELSE 1, BFromInt(Abs(x.n)), BFromInt(x.d))

-----------------------------------------------------------------------------
(* build_frontier *)

\* the float 1e-12
EPS == DRatio(1, <<1>>, BPow10(12))

\* the order numpy sorts floats in: NaN after every number
SortLess(x, y) == DLess(x, y) \/ (DIsNaN(y) /\ ~DIsNaN(x))

Minimal(vols, S) == {m \in S : \A s \in S : ~SortLess(At(vols, s), At(vols, m))}

RECURSIVE SortedOrders(_, _)
SortedOrders(vols, S) ==
    IF S = {} THEN {<<>>}
    ELSE UNION {{<<m>> \o o : o \in SortedOrders(vols, S \ {m})} : m \in Minimal(vols, S)}

\* the scan order a bug would give: no sort at all
InputOrder(vols) == {[i \in 1..Len(vols) |-> i - 1]}

\* the values of a sequence
Range(s) == {s[i] : i \in 1..Len(s)}

\* the function f, as a table: every value computed once, where the values of
\* a function written [x \in S |-> e] are computed at each application
Table(f) == f @@ <<>>

\* np.argsort(vols) with the default kind, "quicksort", which numpy documents
\* as not stable: the indices in ascending order of vols, equal values (and
\* NaNs) in an order the build of numpy decides.  The set of every order the
\* call may return.
ArgSort(vols) == SortedOrders(vols, 0..(Len(vols) - 1))

\* the number of distinct values of vols that sort before v
Rank(vols) ==
    LET V == Range(vols)
    IN  Table([v \in V |-> Cardinality({u \in V : SortLess(u, v)})])

\* the indices of S, whose ranks are all in lo..hi, as their classes: for each
\* rank from lo to hi, the set of the indices of that rank
RECURSIVE ClassesOf(_, _, _, _)
ClassesOf(S, r, lo, hi) ==
    IF lo > hi THEN <<>>
    ELSE IF lo = hi THEN <<S>>
    ELSE ClassesOf({i \in S : r[i] <= (lo + hi) \div 2}, r, lo, (lo + hi) \div 2)
         \o ClassesOf({i \in S : r[i] > (lo + hi) \div 2}, r,
                      ((lo + hi) \div 2) + 1, hi)

\* what every order of ArgSort(vols) has in common: the tie classes of vols,
\* the sets of indices of one volatility (the NaNs are one class), in
\* ascending order of the volatility.  An order of ArgSort(vols) lists the
\* first class in some order, then the second, and so on, and every such
\* list is one.
TieClasses(vols) ==
    LET n == Len(vols)
        rank == Rank(vols)
        r == Table([i \in 0..(n - 1) |-> rank[At(vols, i)]])
    IN  ClassesOf(0..(n - 1), r, 0, Cardinality(Range(vols)) - 1)

\* rets[idx] >= best - 1e-12, the subtraction rounded
Accepts(ret, b) == DGeq(ret, DSub(b, EPS))

\* the update a bug would give: best is never raised
KeepFirst(a, b) == a

\* Python's max(a, b): b when b > a, else a
PyMax(a, b) == IF DLess(a, b) THEN b ELSE a

\* the for loop over order[lo..hi], entered with best = b: the indices it
\* appends and best after it
RECURSIVE Scan(_, _, _, _, _)
Scan(o, rets, lo, hi, b) ==
    IF lo > hi THEN [frontier |-> <<>>, best |-> b]
    ELSE IF lo = hi
         THEN (IF Accepts(At(rets, o[lo]), b)
               THEN [frontier |-> <<o[lo]>>, best |-> PyMax(b, At(rets, o[lo]))]
               ELSE [frontier |-> <<>>, best |-> b])
    ELSE LET l == Scan(o, rets, lo, (lo + hi) \div 2, b)
             r == Scan(o, rets, ((lo + hi) \div 2) + 1, hi, l.best)
         IN  [frontier |-> l.frontier \o r.frontier, best |-> r.best]

\* build_frontier(vols, rets) when argsort returns o: best = -np.inf,
\* frontier = [], the loop, return frontier
build_frontier(o, rets) == Scan(o, rets, 1, Len(o), DInf(-1))

\* the for loop over one tie class S, entered with best = b, under every
\* order of S at once.  best is never lowered and ends as top, the greater of
\* b and the greatest return of S that passes the test against b, whatever
\* the order.  An index whose return passes the test against top is accepted
\* in every order (always); one whose return passes against b and not
\* against top is accepted when it is scanned before the returns that raise
\* best above it and rejected when scanned after them (sometimes); any other
\* is rejected in every order.
ClassScan(S, rets, b) ==
    LET R == {At(rets, i) : i \in S}
        passesFirst == Table([r \in R |-> Accepts(r, b)])
        cands == {r \in R : passesFirst[r]}
        top == IF cands = {} THEN b
               ELSE PyMax(b, CHOOSE m \in cands : \A r \in cands : ~DLess(m, r))
        passesTop == Table([r \in R |-> Accepts(r, top)])
    IN  [best |-> top,
         frontier |->
             <<[first |-> b,
                always |-> {i \in S : passesTop[At(rets, i)]},
                sometimes |-> {i \in S : /\ passesFirst[At(rets, i)]
                                         /\ ~passesTop[At(rets, i)]}]>>]

\* the for loop over the tie classes classes[lo..hi], entered with best = b
RECURSIVE ScanClasses(_, _, _, _, _)
ScanClasses(classes, rets, lo, hi, b) ==
    IF lo > hi THEN [frontier |-> <<>>, best |-> b]
    ELSE IF lo = hi THEN ClassScan(classes[lo], rets, b)
    ELSE LET l == ScanClasses(classes, rets, lo, (lo + hi) \div 2, b)
             r == ScanClasses(classes, rets, ((lo + hi) \div 2) + 1, hi, l.best)
         IN  [frontier |-> l.frontier \o r.frontier, best |-> r.best]

\* the integers of S, all in lo..hi, in ascending order
RECURSIVE SortKeys(_, _, _)
SortKeys(S, lo, hi) ==
    IF S = {} THEN <<>>
    ELSE IF Cardinality(S) = 1 THEN <<CHOOSE x \in S : TRUE>>
    ELSE SortKeys({x \in S : x <= (lo + hi) \div 2}, lo, (lo + hi) \div 2)
         \o SortKeys({x \in S : x > (lo + hi) \div 2}, ((lo + hi) \div 2) + 1, hi)

\* the order of ArgSort(vols) that lists, in each tie class, the indices of f
\* as f has them and then the other indices of the class: position k of f is
\* sorted by the key rank * 2n + k - 1, an index i outside f by rank * 2n + n + i
Completion(vols, f) ==
    LET n == Len(vols)
        rank == Rank(vols)
        keys == SortKeys({rank[At(vols, f[k])] * (2 * n) + (k - 1) : k \in 1..Len(f)}
                         \cup {rank[At(vols, i)] * (2 * n) + n + i :
                                   i \in (0..(n - 1)) \ Range(f)},
                         0, 2 * n * n)
    IN  [p \in 1..n |-> IF keys[p] % (2 * n) < n THEN f[(keys[p] % (2 * n)) + 1]
                         ELSE (keys[p] % (2 * n)) - n]

\* f is a list build_frontier(vols, rets) may return: under some order of
\* ArgSort(vols) the loop accepts the indices of f, in that order, and no
\* other.  A rejected index is still rejected when scanned at the end of its
\* class, where best is no lower, and leaves best as it is: so f is returned
\* under some order exactly when it is returned under Completion(vols, f).
MayReturn(vols, rets, f) ==
    /\ \A k \in 1..Len(f) : f[k] \in 0..(Len(vols) - 1)
    /\ Cardinality(Range(f)) = Len(f)
    /\ \A k \in 1..(Len(f) - 1) : ~SortLess(At(vols, f[k + 1]), At(vols, f[k]))
    /\ build_frontier(Completion(vols, f), rets).frontier = f

\* frontier_indices = build_frontier(port_vols, port_returns), the whole
\* call, on the 5151 points of main, whose orders are too many to list (the
\* points of one w1 have one volatility).  order holds np.argsort's result as
\* its tie classes, and frontier holds the result class by class: the indices
\* every order accepts and the indices some orders accept.  The lists the
\* call may return are the f with MayReturn(port_vols, port_returns, f); best
\* is the same in all of them.
BuildFrontier ==
    /\ pc = "sort"
    /\ LET classes == TieClasses(port_vols)
           result == ScanClasses(classes, port_returns, 1, Len(classes), DInf(-1))
       IN  /\ order' = classes
           /\ frontier' = result.frontier
           /\ best' = result.best
    /\ pos' = Len(port_vols)
    /\ pc' = "assemble"
    /\ stages' = Append(stages, "frontier")
    /\ UNCHANGED <<file, closes, returns, mean_returns, cov_matrix, num_steps,
                   gi, gj, weights, port_returns, port_vols,
                   mean_daily, annual_returns, annual_volatility, written>>

\* build_frontier step by step.
\* order = np.argsort(vols); best = -np.inf; frontier = []
FrontierSort ==
    /\ pc = "sort"
    /\ \E o \in ArgSort(port_vols) : order' = o
    /\ best' = DInf(-1)
    /\ frontier' = <<>>
    /\ pos' = 0
    /\ pc' = "scan"
    /\ UNCHANGED <<file, closes, returns, mean_returns, cov_matrix, num_steps,
                   gi, gj, weights, port_returns, port_vols,
                   mean_daily, annual_returns, annual_volatility, written, stages>>

\* one iteration of the for loop, the if taken
FrontierAccept ==
    /\ pc = "scan"
    /\ pos < Len(order)
    /\ LET idx == order[pos + 1]
       IN  /\ Accepts(At(port_returns, idx), best)
           /\ frontier' = Append(frontier, idx)
           /\ best' = PyMax(best, At(port_returns, idx))
    /\ pos' = pos + 1
    /\ UNCHANGED <<pc, file, closes, returns, mean_returns, cov_matrix, num_steps,
                   gi, gj, weights, port_returns, port_vols, order,
                   mean_daily, annual_returns, annual_volatility, written, stages>>

\* one iteration of the for loop, the if not taken
FrontierReject ==
    /\ pc = "scan"
    /\ pos < Len(order)
    /\ ~Accepts(At(port_returns, order[pos + 1]), best)
    /\ pos' = pos + 1
    /\ UNCHANGED <<pc, file, closes, returns, mean_returns, cov_matrix, num_steps,
                   gi, gj, weights, port_returns, port_vols, order, best, frontier,
                   mean_daily, annual_returns, annual_volatility, written, stages>>

\* return frontier
FrontierReturn ==
    /\ pc = "scan"
    /\ pos = Len(order)
    /\ pc' = "assemble"
    /\ stages' = Append(stages, "frontier")
    /\ UNCHANGED <<file, closes, returns, mean_returns, cov_matrix, num_steps,
                   gi, gj, weights, port_returns, port_vols, order, pos, best,
                   frontier, mean_daily, annual_returns, annual_volatility, written>>

\* the values the inputs of build_frontier are drawn from: volatilities 0, 1,
\* 2 and NaN; returns 2.0, the float 2.0 - 1e-12 (the threshold of a scan
\* whose best is 2.0, and further than 1e-12 from 2.0 by the rounding of the
\* subtraction), 0.0 (far below it) and NaN
VolValues == {DZero, DFromInt(1), DFromInt(2), DNaN}

RetValues == {DFromInt(2), DSub(DFromInt(2), EPS), DZero, DNaN}

SeqsUpTo(S, n) == UNION {[1..m -> S] : m \in 0..n}

NoFile == [fault |-> "none", tickers |-> 0, rows |-> <<>>]

\* build_frontier called on its own with any vols and rets of equal length
InitFrontier ==
    /\ pc = "sort"
    /\ port_vols \in SeqsUpTo(VolValues, MaxPoints)
    /\ port_returns \in [1..Len(port_vols) -> RetValues]
    /\ order = <<>>
    /\ pos = 0
    /\ best = DInf(-1)
    /\ frontier = <<>>
    /\ file = NoFile
    /\ closes = <<>>
    /\ returns = <<>>
    /\ mean_returns = <<>>
    /\ cov_matrix = <<>>
    /\ num_steps = 0
    /\ gi = 0
    /\ gj = 0
    /\ weights = <<>>
    /\ mean_daily = <<>>
    /\ annual_returns = <<>>
    /\ annual_volatility = <<>>
    /\ written = <<>>
    /\ stages = <<>>

NextFrontier == FrontierSort \/ FrontierAccept \/ FrontierReject \/ FrontierReturn

SpecFrontier == InitFrontier /\ [][NextFrontier]_vars

-----------------------------------------------------------------------------
(* generate_weight_grid *)

\* def generate_weight_grid(num_steps: int = 101)
DefaultSteps == 101

\* the float 1e-9
TOL == DRatio(1, <<1>>, BPow10(9))

\* np.linspace(0, 1, num)[i]: i * step rounded, with step = 1 / (num - 1)
\* rounded, and the last element set to 1; linspace(0, 1, 1) is [0.]
Linspace(num, i) ==
    IF num = 1 THEN DZero
    ELSE IF i = num - 1 THEN DOne
    ELSE DMulInt(i, DDiv(DOne, DFromInt(num - 1)))

\* w3 = 1 - w1 - w2 of the candidate (grid[i], grid[j])
RawW3(num, i, j) == DSub(DSub(DOne, Linspace(num, i)), Linspace(num, j))

\* the test a bug would give: no tolerance
DiscardsNegative(w3) == DLess(w3, DZero)

\* if w3 < -1e-9: continue
Discards(w3) == DLess(w3, DNeg(TOL))

\* the clamp a bug would give: none
ClampNone(w3) == w3

\* if w3 < 0: w3 = 0.0
Clamp(w3) == IF DLess(w3, DZero) THEN DZero ELSE w3

\* total = w1 + w2 + w3
Total(w1, w2, w3) == DAdd(DAdd(w1, w2), w3)

DivideBy(w1, w2, w3, total) == <<DDiv(w1, total), DDiv(w2, total), DDiv(w3, total)>>

\* vec = np.array([w1, w2, w3]) / total
Normalized(w1, w2, w3) == DivideBy(w1, w2, w3, Total(w1, w2, w3))

\* grid = np.linspace(0, 1, num)
Grid(num) == [i \in 1..num |-> Linspace(num, i - 1)]

\* the body of the double loop at the candidate (w1, w2): the vectors it
\* appends, none or one
GridBody(w1, w2) ==
    LET raw == DSub(DSub(DOne, w1), w2)
        w3 == Clamp(raw)
        total == Total(w1, w2, w3)
    IN  IF Discards(raw) \/ DIsZero(total) THEN <<>>
        ELSE <<DivideBy(w1, w2, w3, total)>>

\* grid of the call main makes, generate_weight_grid()
DefaultGrid == Grid(DefaultSteps)

\* the vectors the candidates lo..hi of that call append, candidate c being
\* (grid[c // num_steps], grid[c % num_steps]): the double loop in its order
RECURSIVE GridRange(_, _)
GridRange(lo, hi) ==
    IF lo > hi THEN <<>>
    ELSE IF lo = hi
         THEN GridBody(DefaultGrid[(lo \div DefaultSteps) + 1],
                       DefaultGrid[(lo % DefaultSteps) + 1])
    ELSE GridRange(lo, (lo + hi) \div 2) \o GridRange(((lo + hi) \div 2) + 1, hi)

\* generate_weight_grid(), the whole call: what it returns
generate_weight_grid == GridRange(0, DefaultSteps * DefaultSteps - 1)

\* generate_weight_grid step by step.
\* the loop indices after one more candidate
GridAdvance ==
    /\ gj' = IF gj + 1 = num_steps THEN 0 ELSE gj + 1
    /\ gi' = IF gj + 1 = num_steps THEN gi + 1 ELSE gi

\* one candidate of the double loop, dropped by the w3 test
GridDiscard ==
    /\ pc = "sample"
    /\ gi < num_steps
    /\ Discards(RawW3(num_steps, gi, gj))
    /\ GridAdvance
    /\ UNCHANGED <<pc, file, closes, returns, mean_returns, cov_matrix, num_steps,
                   weights, port_returns, port_vols, order, pos, best, frontier,
                   mean_daily, annual_returns, annual_volatility, written, stages>>

\* one candidate of the double loop that passes the w3 test: clamped,
\* skipped when its total is 0, normalised and appended
GridAppend ==
    /\ pc = "sample"
    /\ gi < num_steps
    /\ ~Discards(RawW3(num_steps, gi, gj))
    /\ LET w1 == Linspace(num_steps, gi)
           w2 == Linspace(num_steps, gj)
           w3 == Clamp(RawW3(num_steps, gi, gj))
       IN  weights' = IF DIsZero(Total(w1, w2, w3)) THEN weights
                      ELSE Append(weights, Normalized(w1, w2, w3))
    /\ GridAdvance
    /\ UNCHANGED <<pc, file, closes, returns, mean_returns, cov_matrix, num_steps,
                   port_returns, port_vols, order, pos, best, frontier,
                   mean_daily, annual_returns, annual_volatility, written, stages>>

\* return np.array(weights)
GridReturn ==
    /\ pc = "sample"
    /\ gi = num_steps
    /\ pc' = "evaluate"
    /\ stages' = Append(stages, "sample")
    /\ UNCHANGED <<file, closes, returns, mean_returns, cov_matrix, num_steps,
                   gi, gj, weights, port_returns, port_vols, order, pos, best,
                   frontier, mean_daily, annual_returns, annual_volatility, written>>

\* generate_weight_grid called on its own with any num_steps >= 1
InitGrid ==
    /\ pc = "sample"
    /\ num_steps \in 1..MaxSteps
    /\ gi = 0
    /\ gj = 0
    /\ weights = <<>>
    /\ file = NoFile
    /\ closes = <<>>
    /\ returns = <<>>
    /\ mean_returns = <<>>
    /\ cov_matrix = <<>>
    /\ port_returns = <<>>
    /\ port_vols = <<>>
    /\ order = <<>>
    /\ pos = 0
    /\ best = DInf(-1)
    /\ frontier = <<>>
    /\ mean_daily = <<>>
    /\ annual_returns = <<>>
    /\ annual_volatility = <<>>
    /\ written = <<>>
    /\ stages = <<>>

NextGrid == GridDiscard \/ GridAppend \/ GridReturn

SpecGrid == InitGrid /\ [][NextGrid]_vars

-----------------------------------------------------------------------------
(* The statistics: compute_returns and the pandas/numpy moments main uses *)

TRADING_DAYS == 252

\* column c of a table (a sequence of rows)
Col(t, c) == [i \in 1..Len(t) |-> t[i][c]]

NotNaNs(s) == SelectSeq(s, LAMBDA x : ~IsNaN(x))

\* closes.pct_change(fill_method=None): row 1 is all NaN, row i is
\* closes[i] / closes[i-1] - 1
PctChange(t) ==
    [i \in 1..Len(t) |->
        [c \in 1..Len(t[i]) |->
            IF i = 1 THEN NaN
            ELSE Sub(Div(Num(t[i][c]), Num(t[i - 1][c])), Num(1))]]

\* .dropna(how="all"): the rows with a value that is not NaN
DropNaAll(t) == SelectSeq(t, LAMBDA row : \E c \in 1..Len(row) : ~IsNaN(row[c]))

compute_returns(t) == DropNaAll(PctChange(t))

\* Series.mean(): the mean of the values that are not NaN, NaN when there are
\* none
Mean(s) == Div(SumSeq(NotNaNs(s)), Num(Len(NotNaNs(s))))

\* the sum over the rows of (x - mx) * (y - my)
CoMoment(xs, ys) ==
    SumSeq([i \in 1..Len(xs) |-> Mul(Sub(xs[i], Mean(xs)), Sub(ys[i], Mean(ys)))])

\* the divisor of np.cov (ddof = 1): rows - 1, and 0 when that is not positive
CovDivisor(n) == IF n - 1 <= 0 THEN 0 ELSE n - 1

\* np.cov(mat.T, ddof=1)[a][b], the covariance of a table without NaN
NpCov(t, a, b) == Div(CoMoment(Col(t, a), Col(t, b)), Num(CovDivisor(Len(t))))

\* the rows of t that are finite in both columns a and b
FiniteRows(t, a, b) == SelectSeq(t, LAMBDA row : row[a].k = "num" /\ row[b].k = "num")

\* libalgos.nancorr(mat, cov=True)[a][b], the covariance of a table with a
\* NaN in it: over the rows finite in both columns, NaN when there are fewer
\* than two
NanCov(t, a, b) ==
    IF Len(FiniteRows(t, a, b)) < 2 THEN NaN
    ELSE Div(CoMoment(Col(FiniteRows(t, a, b), a), Col(FiniteRows(t, a, b), b)),
             Num(Len(FiniteRows(t, a, b)) - 1))

HasNaN(t) == \E i \in 1..Len(t) : \E c \in 1..Len(t[i]) : IsNaN(t[i][c])

\* returns.cov()[a][b]
Cov(t, a, b) == IF HasNaN(t) THEN NanCov(t, a, b) ELSE NpCov(t, a, b)

\* the population variance of the values of s, NaN when there are none
VarPop(s) == IF s = <<>> THEN NaN ELSE Div(CoMoment(s, s), Num(Len(s)))

\* returns.std(ddof=0)[c]: the square root of the population variance of the
\* values that are not NaN
StdPop(t, c) == DSqrt(Float64(VarPop(NotNaNs(Col(t, c)))))

-----------------------------------------------------------------------------
(* portfolio_stats *)

\* weights @ mean_returns raises unless there are three means (and the
\* einsum unless cov_matrix is 3 x 3)
EvaluateFails == Len(mean_returns) # 3 \/ Len(cov_matrix) # 3

\* the float TRADING_DAYS
D252 == DFromInt(TRADING_DAYS)

\* the sum of the floats s[i..], added to acc from left to right
RECURSIVE DSumFrom(_, _, _)
DSumFrom(s, i, acc) == IF i > Len(s) THEN acc ELSE DSumFrom(s, i + 1, DAdd(acc, s[i]))

DSum(s) == DSumFrom(s, 1, DZero)

\* (weights @ mean_returns * TRADING_DAYS)[i] for the row w of weights
PortReturn(w, means) == DMul(DSum([c \in 1..3 |-> DMul(w[c], means[c])]), D252)

\* cov_matrix * TRADING_DAYS
Scaled(cov) == [a \in 1..3 |-> [b \in 1..3 |-> DMul(cov[a][b], D252)]]

\* einsum("ij,jk,ik->i", weights, c, weights)[i] for the row w of weights:
\* the sum over j and k of w[j] * c[j][k] * w[k]
QuadForm(w, c) ==
    DSum([t \in 1..9 |->
            DMul(DMul(w[((t - 1) \div 3) + 1],
                      c[((t - 1) \div 3) + 1][((t - 1) % 3) + 1]),
                 w[((t - 1) % 3) + 1])])

\* np.sqrt of the quadratic forms q, taken as they are: one root for each
\* distinct value
PortVols(q) ==
    LET root == Table([x \in Range(q) |-> DSqrt(x)])
    IN  [i \in 1..Len(q) |-> root[q[i]]]

\* portfolio_stats(weights, mean_returns, cov_matrix)
Evaluate ==
    /\ pc = "evaluate"
    /\ ~EvaluateFails
    /\ port_returns' = [i \in 1..Len(weights) |-> PortReturn(weights[i], mean_returns)]
    /\ port_vols' = LET c == Scaled(cov_matrix)
                    IN  PortVols([i \in 1..Len(weights) |-> QuadForm(weights[i], c)])
    /\ pc' = "sort"
    /\ stages' = Append(stages, "evaluate")
    /\ UNCHANGED <<file, closes, returns, mean_returns, cov_matrix,
                   num_steps, gi, gj, weights, order, pos, best, frontier,
                   mean_daily, annual_returns, annual_volatility, written>>

\* portfolio_stats raises: the run ends with the exception
EvaluateFail ==
    /\ pc = "evaluate"
    /\ EvaluateFails
    /\ pc' = "failed"
    /\ UNCHANGED <<file, closes, returns, mean_returns, cov_matrix,
                   num_steps, gi, gj, weights, port_returns, port_vols,
                   order, pos, best, frontier, mean_daily, annual_returns,
                   annual_volatility, written, stages>>

DHalf == DDiv(DOne, DFromInt(2))

DQuarter == DDiv(DOne, DFromInt(4))

\* the inputs portfolio_stats is called on when it is called on its own
StatsWeights == {<<DOne, DZero, DZero>>, <<DZero, DOne, DZero>>, <<DZero, DZero, DOne>>,
                 <<DHalf, DHalf, DZero>>, <<DQuarter, DQuarter, DHalf>>}

StatsMeans == {<<DZero, DFromInt(1), DFromInt(2)>>, <<DFromInt(1), DFromInt(1)>>}

SymmetricMatrices ==
    {m \in [1..3 -> [1..3 -> {DFromInt(-1), DZero, DFromInt(1)}]] :
        \A a \in 1..3 : \A b \in 1..3 : m[a][b] = m[b][a]}

\* portfolio_stats called on its own: one weight vector, any symmetric matrix
InitStats ==
    /\ pc = "evaluate"
    /\ weights \in {<<w>> : w \in StatsWeights}
    /\ mean_returns \in StatsMeans
    /\ cov_matrix \in SymmetricMatrices
    /\ file = NoFile
    /\ closes = <<>>
    /\ returns = <<>>
    /\ num_steps = 0
    /\ gi = 0
    /\ gj = 0
    /\ port_returns = <<>>
    /\ port_vols = <<>>
    /\ order = <<>>
    /\ pos = 0
    /\ best = DInf(-1)
    /\ frontier = <<>>
    /\ mean_daily = <<>>
    /\ annual_returns = <<>>
    /\ annual_volatility = <<>>
    /\ written = <<>>
    /\ stages = <<>>

NextStats == Evaluate \/ EvaluateFail

SpecStats == InitStats /\ [][NextStats]_vars

-----------------------------------------------------------------------------
(* main *)

\* load_price_data raises: no file, no ("Price", "Ticker", "Date") column, a
\* date that does not parse, or no "Close" columns
LoadFails == file.fault # "none"

\* closes = load_price_data(DATA_PATH)
Load ==
    /\ pc = "load"
    /\ ~LoadFails
    /\ closes' = file.rows
    /\ pc' = "returns"
    /\ stages' = Append(stages, "load")
    /\ UNCHANGED <<file, returns, mean_returns, cov_matrix, num_steps, gi,
                   gj, weights, port_returns, port_vols, order, pos, best,
                   frontier, mean_daily, annual_returns, annual_volatility,
                   written>>

\* what a bug would do when the load raises: leave an empty document behind
LoadFailWritesStub ==
    /\ pc = "load"
    /\ LoadFails
    /\ pc' = "failed"
    /\ written' = Append(written, [tickers |-> <<>>])
    /\ UNCHANGED <<file, closes, returns, mean_returns, cov_matrix,
                   num_steps, gi, gj, weights, port_returns, port_vols,
                   order, pos, best, frontier, mean_daily, annual_returns,
                   annual_volatility, stages>>

\* load_price_data raises: the run ends with the exception
LoadFail ==
    /\ pc = "load"
    /\ LoadFails
    /\ pc' = "failed"
    /\ UNCHANGED <<file, closes, returns, mean_returns, cov_matrix,
                   num_steps, gi, gj, weights, port_returns, port_vols,
                   order, pos, best, frontier, mean_daily, annual_returns,
                   annual_volatility, written, stages>>

\* returns = compute_returns(closes)
ComputeReturns ==
    /\ pc = "returns"
    /\ returns' = compute_returns(closes)
    /\ pc' = "moments"
    /\ stages' = Append(stages, "returns")
    /\ UNCHANGED <<file, closes, mean_returns, cov_matrix, num_steps, gi, gj,
                   weights, port_returns, port_vols, order, pos, best,
                   frontier, mean_daily, annual_returns, annual_volatility,
                   written>>

\* mean_returns = returns.mean().to_numpy()
\* cov_matrix = returns.cov().to_numpy()
Moments ==
    /\ pc = "moments"
    /\ mean_returns' = [c \in 1..file.tickers |-> Float64(Mean(Col(returns, c)))]
    /\ cov_matrix' = [a \in 1..file.tickers |->
                         [b \in 1..file.tickers |-> Float64(Cov(returns, a, b))]]
    /\ pc' = "grid_call"
    /\ stages' = Append(stages, "moments")
    /\ UNCHANGED <<file, closes, returns, num_steps, gi, gj, weights,
                   port_returns, port_vols, order, pos, best, frontier,
                   mean_daily, annual_returns, annual_volatility, written>>

\* weights = generate_weight_grid(), the whole call: num_steps is the default
GridCall ==
    /\ pc = "grid_call"
    /\ num_steps' = DefaultSteps
    /\ weights' = generate_weight_grid
    /\ gi' = DefaultSteps
    /\ gj' = 0
    /\ pc' = "evaluate"
    /\ stages' = Append(stages, "sample")
    /\ UNCHANGED <<file, closes, returns, mean_returns, cov_matrix,
                   port_returns, port_vols, order, pos, best, frontier,
                   mean_daily, annual_returns, annual_volatility, written>>

\* mean_daily = returns.mean(); annual_returns = mean_daily * TRADING_DAYS
\* annual_volatility = returns.std(ddof=0) * np.sqrt(TRADING_DAYS)
AssetStats ==
    /\ pc = "assemble"
    /\ mean_daily' = [c \in 1..file.tickers |-> Float64(Mean(Col(returns, c)))]
    /\ annual_returns' = [c \in 1..file.tickers |->
                             DMul(Float64(Mean(Col(returns, c))), D252)]
    /\ annual_volatility' = [c \in 1..file.tickers |->
                                DMul(StdPop(returns, c), DSqrt(D252))]
    /\ pc' = "emit"
    /\ stages' = Append(stages, "asset_stats")
    /\ UNCHANGED <<file, closes, returns, mean_returns, cov_matrix,
                   num_steps, gi, gj, weights, port_returns, port_vols,
                   order, pos, best, frontier, written>>

\* the output dict of main
OutputDoc ==
    [tickers |-> [c \in 1..file.tickers |-> c],
     mean_daily_returns |-> mean_daily,
     annualized_returns |-> annual_returns,
     annualized_volatility |-> annual_volatility,
     covariance |-> [a \in 1..file.tickers |->
                        [b \in 1..file.tickers |-> Float64(Cov(returns, a, b))]],
     weights |-> weights,
     portfolio |-> [returns |-> port_returns, volatility |-> port_vols],
     frontier_indices |-> frontier]

\* OUTPUT_PATH.write_text(json.dumps(output, indent=2))
Emit ==
    /\ pc = "emit"
    /\ written' = Append(written, OutputDoc)
    /\ pc' = "done"
    /\ stages' = Append(stages, "emit")
    /\ UNCHANGED <<file, closes, returns, mean_returns, cov_matrix,
                   num_steps, gi, gj, weights, port_returns, port_vols,
                   order, pos, best, frontier, mean_daily, annual_returns,
                   annual_volatility>>

\* the values the price table of a run is drawn from
PriceValues == {1, 2}

\* the values of the price tables that hold a price of 0
ZeroValues == {0, 1}

Faults == {"missing", "no_date", "bad_date", "no_close"}

\* the price tables of m rows and t tickers: every price is 1 in the first row
\* (pct_change does not see the scale of a column) and any price value after
PriceTables(m, t) ==
    {r \in [1..m -> [1..t -> PriceValues]] : \A c \in 1..t : r[1][c] = 1}

\* the price tables of m rows and three tickers in which the first ticker
\* alone moves, and in its last step only: it holds its first price, any
\* price value, up to the last row.  Every sum of portfolio_stats then has at
\* most one term that is not 0, and its float value is the same in whatever
\* order, and with whatever fused operations, the matmul and the einsum of
\* the numpy build add the terms.
MovingTables(m) ==
    {r \in [1..m -> [1..3 -> PriceValues]] :
        /\ \A i \in 1..m : r[i][2] = 1 /\ r[i][3] = 1
        /\ \A i \in 1..(m - 1) : r[i][1] = r[1][1]}

\* the price tables of m rows and two tickers with prices of 0 in them
ZeroTables(m) == [1..m -> [1..2 -> ZeroValues]]

\* the input files: one that cannot be loaded, for each reason, every price
\* table of 1 to MaxRows rows and 2 tickers, every table of two tickers with
\* prices of 0, and the tables of three tickers
Files ==
    {[fault |-> f, tickers |-> 0, rows |-> <<>>] : f \in Faults}
    \cup {[fault |-> "none", tickers |-> 2, rows |-> r] :
             r \in UNION {PriceTables(m, 2) : m \in 1..MaxRows}}
    \cup {[fault |-> "none", tickers |-> 2, rows |-> r] :
             r \in UNION {ZeroTables(m) : m \in 1..MaxRows}}
    \cup {[fault |-> "none", tickers |-> 3, rows |-> r] :
             r \in UNION {MovingTables(m) : m \in 1..MaxRows}}

Init ==
    /\ pc = "load"
    /\ file \in Files
    /\ closes = <<>>
    /\ returns = <<>>
    /\ mean_returns = <<>>
    /\ cov_matrix = <<>>
    /\ num_steps = 0
    /\ gi = 0
    /\ gj = 0
    /\ weights = <<>>
    /\ port_returns = <<>>
    /\ port_vols = <<>>
    /\ order = <<>>
    /\ pos = 0
    /\ best = DInf(-1)
    /\ frontier = <<>>
    /\ mean_daily = <<>>
    /\ annual_returns = <<>>
    /\ annual_volatility = <<>>
    /\ written = <<>>
    /\ stages = <<>>

Next ==
    \/ Load
    \/ LoadFail
    \/ ComputeReturns
    \/ Moments
    \/ GridCall
    \/ Evaluate
    \/ EvaluateFail
    \/ BuildFrontier
    \/ AssetStats
    \/ Emit

Spec == Init /\ [][Next]_vars

-----------------------------------------------------------------------------
(* Properties of build_frontier (SpecFrontier) *)

Indices == 0..(Len(port_vols) - 1)

\* build_frontier has returned
Returned == pc \in {"assemble", "emit", "done"}

\* the indices accepted so far
Accepted == {frontier[k] : k \in 1..Len(frontier)}

\* the exact value of x - y for finite floats x and y, as sign * N * 2^e
ExactDiff(x, y) ==
    LET lo == IF x.e < y.e THEN x.e ELSE y.e
        a == BShl(x.m, x.e - lo)
        b == BShl(y.m, y.e - lo)
    IN  IF x.s # y.s THEN [s |-> x.s, N |-> BAdd(a, b), e |-> lo]
        ELSE IF BCmp(a, b) >= 0 THEN [s |-> x.s, N |-> BSub(a, b), e |-> lo]
        ELSE [s |-> -x.s, N |-> BSub(b, a), e |-> lo]

\* x - y > 10^-12 in the real numbers, for floats x and y
GapExceeds(x, y) ==
    IF DIsNaN(x) \/ DIsNaN(y) THEN FALSE
    ELSE IF x.k # "fin" \/ y.k # "fin" THEN x # y /\ DLess(y, x)
    ELSE LET d == ExactDiff(x, y)
         IN  /\ d.s > 0
             /\ d.N # <<>>
             /\ d.e < 0 => BCmp(BMul(d.N, BPow10(12)), BShl(<<1>>, -d.e)) > 0

\* p dominates a beyond the tolerance: strictly lower volatility, and a return
\* greater by more than 1e-12
Dominates(p, a) ==
    /\ DLess(At(port_vols, p), At(port_vols, a))
    /\ GapExceeds(At(port_returns, p), At(port_returns, a))

\* C1 as stated: no accepted index is dominated beyond the tolerance by any
\* index of the input, accepted or rejected: none has strictly lower
\* volatility and a return greater by more than 1e-12.
C1_NoAcceptedDominated == \A a \in Accepted : \A p \in Indices : ~Dominates(p, a)

\* C1 as amended: no index a of the returned frontier has an index p of
\* strictly lower volatility, accepted or rejected, whose return less 1e-12,
\* the float rets[p] - 1e-12 the code's test computes, is greater than the
\* return of a.
C1_NoAcceptedBelowThreshold ==
    Returned =>
        \A a \in Accepted : \A p \in Indices :
            DLess(At(port_vols, p), At(port_vols, a))
                => ~DLess(At(port_returns, a), DSub(At(port_returns, p), EPS))

\* C1's case: the call has returned, it rejected a point, and an accepted
\* point has a point of lower volatility whose return is higher within the
\* tolerance.
C1_Witness ==
    /\ Returned
    /\ Len(frontier) < Len(port_vols)
    /\ \E a \in Accepted : \E p \in Indices :
          /\ DLess(At(port_vols, p), At(port_vols, a))
          /\ DLess(At(port_returns, a), At(port_returns, p))

\* C2 as stated: consecutive accepted indices have strictly ascending
\* volatility.  Stated for the inputs and the scan order the claim has in
\* mind: no volatility is NaN and the scan order is the stable one.
C2_StrictlyAscending ==
    (/\ Returned
     /\ \A p \in Indices : ~DIsNaN(At(port_vols, p))
     /\ \A p \in 1..Len(order) : \A q \in 1..Len(order) :
           (p < q /\ DEq(At(port_vols, order[p]), At(port_vols, order[q])))
               => order[p] < order[q])
    => \A k \in 1..(Len(frontier) - 1) :
           DLess(At(port_vols, frontier[k]), At(port_vols, frontier[k + 1]))

\* C2 as amended: the volatility never descends along the result; two accepted
\* points may share one volatility.
C2_NeverDescending ==
    \A k \in 1..(Len(frontier) - 1) :
        ~DLess(At(port_vols, frontier[k + 1]), At(port_vols, frontier[k]))

\* C2's case: the call has returned two consecutive indices of one volatility.
C2_Witness ==
    /\ Returned
    /\ \E k \in 1..(Len(frontier) - 1) :
          DEq(At(port_vols, frontier[k]), At(port_vols, frontier[k + 1]))

\* C9 as stated: the scan order is the stable one: of two points of equal
\* volatility, the one with the smaller index is scanned first.
C9_StableOrder ==
    \A p \in 1..Len(order) : \A q \in 1..Len(order) :
        (p < q /\ DEq(At(port_vols, order[p]), At(port_vols, order[q])))
            => order[p] < order[q]

\* every return equals the first
AllSameReturn == \A p \in Indices : DEq(At(port_returns, p), At(port_returns, 0))

\* what C10 says of a returned result
EqualReturnsAndFirst ==
    /\ AllSameReturn =>
          /\ Len(frontier) = Len(port_vols)
          /\ Accepted = Indices
          /\ \A k \in 1..(Len(frontier) - 1) :
                ~DLess(At(port_vols, frontier[k + 1]), At(port_vols, frontier[k]))
    /\ Len(port_vols) = 0 => frontier = <<>>
    /\ Len(port_vols) = 1 => frontier = <<0>>
    /\ Len(port_vols) > 0 =>
          /\ frontier # <<>>
          /\ \A p \in Indices : ~DLess(At(port_vols, p), At(port_vols, frontier[1]))

\* what C10 says of the result of main, held class by class: when every
\* point has the same return every index is accepted in every order, and the
\* result of a non-empty input is not empty and starts with a point of the
\* lowest volatility: in the first tie class some index is accepted in every
\* order (a class entered with best = -inf accepts the first of its returns
\* that is a number).
EqualReturnsAndFirstInClasses ==
    /\ AllSameReturn =>
          UNION {frontier[k].always : k \in 1..Len(frontier)} = Indices
    /\ Len(port_vols) > 0 =>
          /\ frontier # <<>>
          /\ frontier[1].always # {}

\* C10 as stated: when every point has the same return the result holds every
\* index once, in an order of never descending volatility; the empty input
\* gives the empty result and one point gives <<0>>; and the first index of
\* the result of a non-empty input is a point no other point has a lower
\* volatility than.  Stated of main, whose input is never empty nor of one
\* point.
C10_EqualReturnsAndFirst == Returned => EqualReturnsAndFirstInClasses

\* C10 on the inputs without a NaN return, which is where it holds
\* (SpecFrontier)
C10_OnNumbers ==
    (Returned /\ \A p \in Indices : ~DIsNaN(At(port_returns, p))) => EqualReturnsAndFirst

\* the lists of distinct indices of the input
IndexLists ==
    {f \in SeqsUpTo(Indices, Len(port_vols)) : Cardinality(Range(f)) = Len(f)}

\* the result of the whole call on the input, class by class
FrontierClasses ==
    ScanClasses(TieClasses(port_vols), port_returns, 1,
                Len(TieClasses(port_vols)), DInf(-1))

\* The result held class by class is the result of the loop (SpecFrontier):
\* the orders of argsort are the lists of the tie classes in turn; a list is
\* returned under some order exactly when MayReturn admits it; best ends the
\* same under every order; an index is in every result exactly when its class
\* has it as always, and in some result exactly when as always or sometimes.
ClassesAreTheResults ==
    pc = "sort" =>
        LET results == {build_frontier(o, port_returns) : o \in ArgSort(port_vols)}
            classes == TieClasses(port_vols)
        IN  /\ ArgSort(port_vols) =
                   {o \in IndexLists :
                       /\ Len(o) = Len(port_vols)
                       /\ \A p \in 1..Len(o) : \A q \in 1..Len(o) :
                              p < q => \E j \in 1..Len(classes) : \E k \in j..Len(classes) :
                                          o[p] \in classes[j] /\ o[q] \in classes[k]}
            /\ {r.frontier : r \in results} =
                   {f \in IndexLists : MayReturn(port_vols, port_returns, f)}
            /\ \A r \in results : r.best = FrontierClasses.best
            /\ Len(FrontierClasses.frontier) = Len(classes)
            /\ \A k \in 1..Len(classes) :
                   /\ FrontierClasses.frontier[k].always =
                          {i \in classes[k] : \A r \in results : i \in Range(r.frontier)}
                   /\ FrontierClasses.frontier[k].always
                          \cup FrontierClasses.frontier[k].sometimes =
                          {i \in classes[k] : \E r \in results : i \in Range(r.frontier)}

-----------------------------------------------------------------------------
(* Properties of generate_weight_grid (SpecGrid) *)

\* the candidates the double loop has been through, in loop order
Processed ==
    [k \in 1..(gi * num_steps + gj) |->
        <<(k - 1) \div num_steps, (k - 1) % num_steps>>]

\* generate_weight_grid has returned
GridReturned == pc = "evaluate"

\* |x - 1| <= 1e-9
NearOne(x) == DGeq(x, DSub(DOne, TOL)) /\ DGeq(DAdd(DOne, TOL), x)

\* C3: every vector of the output has three components that are not negative
\* and that sum to 1 within 1e-9, the vectors whose w3 was clamped included.
C3_NonNegativeSumOne ==
    \A k \in 1..Len(weights) :
        /\ \A c \in 1..3 : DGeq(weights[k][c], DZero)
        /\ NearOne(DAdd(DAdd(weights[k][1], weights[k][2]), weights[k][3]))

\* w3 of the candidate c is in [-1e-9, 0)
ClampedCandidate(c) ==
    /\ DLess(RawW3(num_steps, c[1], c[2]), DZero)
    /\ DGeq(RawW3(num_steps, c[1], c[2]), DNeg(TOL))

\* C3's case: the call has returned and one of its candidates had w3 in
\* [-1e-9, 0), so that it was clamped and renormalised.
C3_Witness ==
    /\ GridReturned
    /\ \E k \in 1..Len(Processed) : ClampedCandidate(Processed[k])

\* w3 of the candidate c is not below -1e-9
KeptCandidate(c) == DGeq(RawW3(num_steps, c[1], c[2]), DNeg(TOL))

\* the vector of a kept candidate
VectorOf(c) ==
    LET w3 == RawW3(num_steps, c[1], c[2])
    IN  Normalized(Linspace(num_steps, c[1]), Linspace(num_steps, c[2]),
                   IF DLess(w3, DZero) THEN DZero ELSE w3)

VectorsOf(cs) == [k \in 1..Len(cs) |-> VectorOf(cs[k])]

\* C4: the output holds one vector for each candidate whose w3 is not below
\* -1e-9 and none for any other, in loop order, duplicates kept (so the
\* zero-sum guard drops nothing); it is never longer than num_steps squared
\* and is shorter for every num_steps >= 2, the default among them.
C4_OnePerKeptCandidate ==
    /\ weights = VectorsOf(SelectSeq(Processed, KeptCandidate))
    /\ Len(weights) <= num_steps * num_steps
    /\ (GridReturned /\ num_steps >= 2) => Len(weights) < num_steps * num_steps
    /\ Len(generate_weight_grid) < DefaultSteps * DefaultSteps

\* C4's case: the call has returned with num_steps >= 2, having dropped a
\* candidate and kept one whose w3 was negative within the tolerance.
C4_Witness ==
    /\ GridReturned
    /\ num_steps >= 2
    /\ Len(weights) < Len(Processed)
    /\ \E k \in 1..Len(Processed) : ClampedCandidate(Processed[k])

-----------------------------------------------------------------------------
(* Properties of portfolio_stats (SpecStats) and of main (Spec) *)

\* the float vector with all weight on asset k
UnitVector(k) == [c \in 1..3 |-> IF c = k THEN DOne ELSE DZero]

\* C5 as stated: in a written dataset whose return table has at least 2 rows,
\* the portfolio with all weight on asset k has the annualized return and the
\* annualized volatility the dataset gives for asset k.
C5_UnitPortfolioMatchesAsset ==
    \A j \in 1..Len(written) :
        Len(returns) >= 2 =>
            \A i \in 1..Len(written[j].weights) : \A k \in 1..3 :
                written[j].weights[i] = UnitVector(k) =>
                    /\ written[j].portfolio.returns[i] =
                           written[j].annualized_returns[k]
                    /\ written[j].portfolio.volatility[i] =
                           written[j].annualized_volatility[k]

\* the positions of main after the statistics (lines 84 to 86)
AfterStatistics ==
    {"grid_call", "sample", "evaluate", "sort", "scan", "assemble", "emit", "done"}

\* C6 as stated: a run whose return table has fewer than 2 rows fails in the
\* statistics: it never gets to the sampling or to any later step.
C6_FewRowsFailInStatistics == pc \in AfterStatistics => Len(returns) >= 2

SchemaFields == {"tickers", "mean_daily_returns", "annualized_returns",
                 "annualized_volatility", "covariance", "weights", "portfolio",
                 "frontier_indices"}

\* C7: a run writes at most one document, and only once the load, the
\* statistics, the sampling, the evaluation and the frontier have completed,
\* in that order; a run that failed has written nothing; and a written
\* document has every field of the schema, as many portfolio returns and
\* volatilities as weight vectors, and frontier indices within that length.
C7_AllOrNothing ==
    /\ Len(written) <= 1
    /\ written # <<>> =>
          /\ pc = "done"
          /\ Len(stages) >= 6
          /\ SubSeq(stages, 1, 6) =
                 <<"load", "returns", "moments", "sample", "evaluate", "frontier">>
    /\ pc = "failed" => written = <<>>
    /\ \A j \in 1..Len(written) :
          /\ DOMAIN written[j] = SchemaFields
          /\ Len(written[j].portfolio.returns) = Len(written[j].weights)
          /\ Len(written[j].portfolio.volatility) = Len(written[j].weights)
          /\ \A k \in 1..Len(written[j].frontier_indices) :
                written[j].frontier_indices[k].always
                    \cup written[j].frontier_indices[k].sometimes
                        \subseteq 0..(Len(written[j].weights) - 1)

\* C7's case: a run has ended with its document written, the frontier a
\* non-empty part of the portfolios: some index is accepted in every order
\* and some index in none.
C7_Witness ==
    /\ pc = "done"
    /\ Len(written) = 1
    /\ \E k \in 1..Len(written[1].frontier_indices) :
          written[1].frontier_indices[k].always # {}
    /\ \E i \in 0..(Len(written[1].weights) - 1) :
          \A k \in 1..Len(written[1].frontier_indices) :
              i \notin written[1].frontier_indices[k].always
                            \cup written[1].frontier_indices[k].sometimes

\* C8 as stated: no volatility portfolio_stats returns is NaN or negative, and
\* a quadratic form that is negative gives the volatility 0.
C8_VolatilityClamped ==
    pc = "sort" =>
        \A i \in 1..Len(port_vols) :
            /\ ~DIsNaN(port_vols[i])
            /\ DGeq(port_vols[i], DZero)
            /\ DLess(QuadForm(weights[i], Scaled(cov_matrix)), DZero)
                   => port_vols[i] = DZero

====
